---------------------------- MODULE Spec2Model ----------------------------
(***************************************************************************)
(* Model of trunk/pymodbus/bit_read_message.py: the request and response   *)
(* messages of Modbus function codes 1 (read coils) and 2 (read discrete   *)
(* inputs), their wire encoding, and the execution of a request against a  *)
(* data store context.                                                     *)
(*                                                                         *)
(* Five specifications share the definitions:                              *)
(*   Spec        execute against an arbitrary store: validate answers any  *)
(*               boolean, getValues any sequence of booleans               *)
(*   FairSpec    Spec, with every started execute call running on          *)
(*   SpecShared  execute against one store with contents, shared with a    *)
(*               writer                                                    *)
(*   SpecReq     the request codec (struct.pack / struct.unpack '>HH')     *)
(*   SpecResp    the response codec (byte count + packed bits)             *)
(* Bytes are integers 0..255, byte strings are sequences of them; Python   *)
(* lists are sequences (index p of a list is index p+1 of the sequence).   *)
(***************************************************************************)
EXTENDS Integers, Sequences, FiniteSets

\* ------------------------------------------------------------------ bounds
\* longest sequence an arbitrary store's getValues returns (Spec)
MaxVals == 2
\* number of addressable bits of each block of the shared store (SpecShared)
StoreSize == 2
\* number of writes the writer makes to the shared store (SpecShared)
MaxWrites == 1
\* longest bit sequence given to the response codec (SpecResp)
MaxBits == 9
\* longest byte string given to the request decoder (SpecReq)
MaxData == 5

\* --------------------------------------------------------- Python values
\* An optional list: None is the empty tuple, a list s is the 1-tuple <<s>>.
PyNone == <<>>
PyList(s) == <<s>>

\* All boolean sequences of length 0..n.
BitSeqs(n) == UNION {[1..k -> BOOLEAN] : k \in 0..n}

\* ------------------------------------------------------------ the classes
\* The two request objects of the model: "rc" is a ReadCoilsRequest, "rd" a
\* ReadDiscreteInputsRequest.
Reqs == {"rc", "rd"}

ReadCoils_function_code == 1
ReadDiscreteInputs_function_code == 2

function_code(r) ==
    IF r = "rc" THEN ReadCoils_function_code ELSE ReadDiscreteInputs_function_code

\* mutants: the upper limit excluded; the lower limit at 0
ReadCoilsRequest_countInRange_exclusive(count) == 1 <= count /\ count < 2000
ReadDiscreteInputsRequest_countInRange_fromZero(count) ==
    0 <= count /\ count <= 2000

\* `1 <= self.count <= 0x7d0`, once per class
ReadCoilsRequest_countInRange(count) == 1 <= count /\ count <= 2000
ReadDiscreteInputsRequest_countInRange(count) == 1 <= count /\ count <= 2000

countInRange(r, count) ==
    IF r = "rc" THEN ReadCoilsRequest_countInRange(count)
    ELSE ReadDiscreteInputsRequest_countInRange(count)

\* ModbusRequest.doException: an exception response carrying
\* function_code | 0x80 and the exception code.
doException(fc, exception) ==
    [kind |-> "Exception", function_code |-> fc + 128, code |-> exception,
     bits |-> <<>>]

\* mutant: the None test inverted
ReadBitsResponseBase_init_inverted(values) ==
    IF values = PyNone THEN values ELSE <<>>

\* ReadBitsResponseBase.__init__: bits is the list given, [] for None
ReadBitsResponseBase_init(values) ==
    IF values # PyNone THEN values[1] ELSE <<>>

ReadCoilsResponse(values) ==
    [kind |-> "Response", function_code |-> ReadCoils_function_code,
     code |-> "", bits |-> ReadBitsResponseBase_init(values)]

ReadDiscreteInputsResponse(values) ==
    [kind |-> "Response", function_code |-> ReadDiscreteInputs_function_code,
     code |-> "", bits |-> ReadBitsResponseBase_init(values)]

NoResult == [kind |-> "None", function_code |-> 0, code |-> "", bits |-> <<>>]


\* ------------------------------------------------------------------ state
VARIABLES
    \* execution of a request against a data store context
    request,     \* request[r]: the fields self.address, self.count of r
    pc,          \* pc[r]: where r's execute call stands
    values,      \* values[r]: the local `values` of execute
    result,      \* result[r]: what execute returned
    calls,       \* calls[r]: the calls r's execute made on the context, in order
    \* the shared data store (SpecShared)
    store,       \* store[fc][a+1]: the bit at address a of function code fc's block
    writes,      \* number of writes made so far
    atValidate,  \* atValidate[r]: the requested bits as they were when validate ran
    atFetch,     \* atFetch[r]: the requested bits as they were when getValues ran
    \* the request codec (SpecReq)
    sndReq,      \* the sender's request: address, count
    wire,        \* the byte string handed to the receiver's decode
    rcvReq,      \* the receiver's request: address, count
    rcvState,    \* "idle", "received", "decoded", "error"
    \* the response codec (SpecResp)
    respBits,    \* the bits of the response being sent
    respWire,    \* its encoding
    clientBits,  \* the bits of the response decoded from respWire
    respState    \* "idle", "built", "encoded", "decoded", "error"

execVars == <<request, pc, values, result, calls>>
storeVars == <<store, writes, atValidate, atFetch>>
reqVars == <<sndReq, wire, rcvReq, rcvState>>
respVars == <<respBits, respWire, clientBits, respState>>
vars == <<request, pc, values, result, calls, store, writes, atValidate, atFetch,
          sndReq, wire, rcvReq, rcvState, respBits, respWire, clientBits,
          respState>>

\* ------------------------------------------------------- execute, by step
\* execute is synchronous straight-line code; its steps are the count check,
\* the two calls on the context, and the construction of the response.  What
\* the context answers is a parameter of the step (ans, vals).

\* mutant: the exception response is built and not returned
execute_checkCount_noReturn(r) ==
    /\ pc[r] = "start"
    /\ IF ~countInRange(r, request[r].count)
       THEN result' = [result EXCEPT
                          ![r] = doException(function_code(r), "IllegalValue")]
       ELSE UNCHANGED result
    /\ pc' = [pc EXCEPT ![r] = "validate"]
    /\ UNCHANGED <<request, values, calls>>

\* `if not (1 <= self.count <= 0x7d0): return self.doException(IllegalValue)`
execute_checkCount(r) ==
    /\ pc[r] = "start"
    /\ IF ~countInRange(r, request[r].count)
       THEN /\ result' = [result EXCEPT
                             ![r] = doException(function_code(r), "IllegalValue")]
            /\ pc' = [pc EXCEPT ![r] = "returned"]
       ELSE /\ pc' = [pc EXCEPT ![r] = "validate"]
            /\ UNCHANGED result
    /\ UNCHANGED <<request, values, calls>>

\* mutant: `not` missing from the test of validate's answer
execute_validate_noNot(r, ans) ==
    /\ pc[r] = "validate"
    /\ calls' = [calls EXCEPT ![r] = Append(@,
                    [op |-> "validate",
                     args |-> <<function_code(r), request[r].address,
                                request[r].count>>,
                     ret |-> <<ans>>])]
    /\ IF ans
       THEN /\ result' = [result EXCEPT
                             ![r] = doException(function_code(r), "IllegalAddress")]
            /\ pc' = [pc EXCEPT ![r] = "returned"]
       ELSE /\ pc' = [pc EXCEPT ![r] = "getValues"]
            /\ UNCHANGED result
    /\ UNCHANGED <<request, values>>

\* `if not context.validate(self.function_code, self.address, self.count):
\*      return self.doException(IllegalAddress)`
execute_validate(r, ans) ==
    /\ pc[r] = "validate"
    /\ calls' = [calls EXCEPT ![r] = Append(@,
                    [op |-> "validate",
                     args |-> <<function_code(r), request[r].address,
                                request[r].count>>,
                     ret |-> <<ans>>])]
    /\ IF ~ans
       THEN /\ result' = [result EXCEPT
                             ![r] = doException(function_code(r), "IllegalAddress")]
            /\ pc' = [pc EXCEPT ![r] = "returned"]
       ELSE /\ pc' = [pc EXCEPT ![r] = "getValues"]
            /\ UNCHANGED result
    /\ UNCHANGED <<request, values>>

\* `values = context.getValues(self.function_code, self.address, self.count)`
execute_getValues(r, vals) ==
    /\ pc[r] = "getValues"
    /\ calls' = [calls EXCEPT ![r] = Append(@,
                    [op |-> "getValues",
                     args |-> <<function_code(r), request[r].address,
                                request[r].count>>,
                     ret |-> <<vals>>])]
    /\ values' = [values EXCEPT ![r] = vals]
    /\ pc' = [pc EXCEPT ![r] = "respond"]
    /\ UNCHANGED <<request, result>>

\* mutant: the response is built without the values
execute_return_withoutValues(r) ==
    /\ pc[r] = "respond"
    /\ result' = [result EXCEPT
                     ![r] = IF r = "rc" THEN ReadCoilsResponse(PyNone)
                            ELSE ReadDiscreteInputsResponse(PyNone)]
    /\ pc' = [pc EXCEPT ![r] = "returned"]
    /\ UNCHANGED <<request, values, calls>>

\* `return ReadCoilsResponse(values)` / `return ReadDiscreteInputsResponse(values)`
execute_return(r) ==
    /\ pc[r] = "respond"
    /\ result' = [result EXCEPT
                     ![r] = IF r = "rc" THEN ReadCoilsResponse(values[r])
                            ELSE ReadDiscreteInputsResponse(values[r])]
    /\ pc' = [pc EXCEPT ![r] = "returned"]
    /\ UNCHANGED <<request, values, calls>>

\* --------------------------------------------- Spec: an arbitrary store
Addresses == {0, 65535}
Counts == (0..MaxVals) \cup {2000, 2001, 65535}

ExecInit ==
    /\ pc = [r \in Reqs |-> "start"]
    /\ values = [r \in Reqs |-> PyNone]
    /\ result = [r \in Reqs |-> NoResult]
    /\ calls = [r \in Reqs |-> <<>>]

StoreIdle ==
    /\ store = <<>>
    /\ writes = 0
    /\ atValidate = [r \in Reqs |-> <<>>]
    /\ atFetch = [r \in Reqs |-> <<>>]

ReqIdle ==
    /\ sndReq = <<>>
    /\ wire = <<>>
    /\ rcvReq = <<>>
    /\ rcvState = "idle"

RespIdle ==
    /\ respBits = <<>>
    /\ respWire = <<>>
    /\ clientBits = <<>>
    /\ respState = "idle"

Init ==
    /\ request \in [Reqs -> [address : Addresses, count : Counts]]
    /\ ExecInit
    /\ StoreIdle
    /\ ReqIdle
    /\ RespIdle

CheckCount(r) ==
    execute_checkCount(r) /\ UNCHANGED <<storeVars, reqVars, respVars>>

\* the store answers validate with either boolean
Validate(r) ==
    /\ \E ans \in BOOLEAN : execute_validate(r, ans)
    /\ UNCHANGED <<storeVars, reqVars, respVars>>

\* the store answers getValues with any sequence of booleans
GetValues(r) ==
    /\ \E vals \in BitSeqs(MaxVals) : execute_getValues(r, PyList(vals))
    /\ UNCHANGED <<storeVars, reqVars, respVars>>

Return(r) ==
    execute_return(r) /\ UNCHANGED <<storeVars, reqVars, respVars>>

Next ==
    \E r \in Reqs : CheckCount(r) \/ Validate(r) \/ GetValues(r) \/ Return(r)

Spec == Init /\ [][Next]_vars


\* under fair scheduling: execute is synchronous, bounded-time code and the
\* store's calls complete with a definite result, so a started call goes on
FairSpec == Spec /\ WF_vars(Next)

\* ------------------------------- SpecShared: one store, shared with a writer
Blocks == {ReadCoils_function_code, ReadDiscreteInputs_function_code}

\* The data store context: a block of StoreSize bits per function code,
\* addressed from 0.
Store_validate(fc, address, count) ==
    fc \in Blocks /\ 0 <= address /\ address + count <= StoreSize

Store_getValues(fc, address, count) ==
    [i \in 1..count |-> store[fc][address + i]]

SharedInit ==
    /\ request \in [Reqs -> [address : 0..StoreSize, count : 0..StoreSize]]
    /\ ExecInit
    /\ store = [fc \in Blocks |-> [a \in 1..StoreSize |-> FALSE]]
    /\ writes = 0
    /\ atValidate = [r \in Reqs |-> <<>>]
    /\ atFetch = [r \in Reqs |-> <<>>]
    /\ ReqIdle
    /\ RespIdle

SharedCheckCount(r) ==
    execute_checkCount(r) /\ UNCHANGED <<storeVars, reqVars, respVars>>

SharedValidate(r) ==
    LET fc == function_code(r)
        a == request[r].address
        c == request[r].count
    IN /\ execute_validate(r, Store_validate(fc, a, c))
       /\ atValidate' = [atValidate EXCEPT ![r] =
              IF Store_validate(fc, a, c)
              THEN [i \in 1..c |-> store[fc][a + i]] ELSE <<>>]
       /\ UNCHANGED <<store, writes, atFetch, reqVars, respVars>>

SharedGetValues(r) ==
    LET fc == function_code(r)
        a == request[r].address
        c == request[r].count
    IN /\ execute_getValues(r, PyList(Store_getValues(fc, a, c)))
       /\ atFetch' = [atFetch EXCEPT ![r] = [i \in 1..c |-> store[fc][a + i]]]
       /\ UNCHANGED <<store, writes, atValidate, reqVars, respVars>>

SharedReturn(r) ==
    execute_return(r) /\ UNCHANGED <<storeVars, reqVars, respVars>>

\* another user of the context sets one bit of the store
StoreWrite(fc, a, v) ==
    /\ writes < MaxWrites
    /\ writes' = writes + 1
    /\ store' = [store EXCEPT ![fc][a] = v]
    /\ UNCHANGED <<execVars, atValidate, atFetch, reqVars, respVars>>

SharedNext ==
    \/ \E r \in Reqs : \/ SharedCheckCount(r)
                       \/ SharedValidate(r)
                       \/ SharedGetValues(r)
                       \/ SharedReturn(r)
    \/ \E fc \in Blocks, a \in 1..StoreSize, v \in BOOLEAN : StoreWrite(fc, a, v)

SpecShared == SharedInit /\ [][SharedNext]_vars

\* ------------------------------------------------ SpecReq: the request codec
\* struct.pack('>HH', a, c): two unsigned 16-bit integers, big-endian (a and
\* c in 0..65535; struct.error otherwise)
pack_HH(a, c) == <<a \div 256, a % 256, c \div 256, c % 256>>

\* struct.unpack('>HH', data), for data of 4 bytes (struct.error otherwise)
unpack_HH(data) == <<data[1] * 256 + data[2], data[3] * 256 + data[4]>>

\* mutant: the two fields packed in the other order
ReadBitsRequestBase_encode_swapped(req) == pack_HH(req.count, req.address)

ReadBitsRequestBase_encode(req) == pack_HH(req.address, req.count)

U16Samples == {0, 1, 255, 256, 2000, 2001, 65535}
ByteSamples == {0, 7, 255}
ByteStrings(n) == UNION {[1..k -> ByteSamples] : k \in 0..n}

ReqInit ==
    /\ sndReq \in [address : U16Samples, count : U16Samples]
    /\ wire = <<>>
    \* the receiver's request, which holds some address and count
    /\ rcvReq \in [address : {1, 65535}, count : {1}]
    /\ rcvState = "idle"
    /\ request = <<>>
    /\ pc = <<>>
    /\ values = <<>>
    /\ result = <<>>
    /\ calls = <<>>
    /\ StoreIdle
    /\ RespIdle

\* the sender encodes its request; the bytes reach the receiver
ReqEncode ==
    /\ rcvState = "idle"
    /\ wire' = ReadBitsRequestBase_encode(sndReq)
    /\ rcvState' = "received"
    /\ UNCHANGED <<sndReq, rcvReq, execVars, storeVars, respVars>>

\* any other byte string reaches the receiver
ReqReceive(data) ==
    /\ rcvState = "idle"
    /\ wire' = data
    /\ rcvState' = "received"
    /\ UNCHANGED <<sndReq, rcvReq, execVars, storeVars, respVars>>

\* mutant: the first 4 bytes of a longer input are decoded (unpack_from)
ReadBitsRequestBase_decode_prefix ==
    /\ rcvState = "received"
    /\ IF Len(wire) < 4
       THEN /\ rcvState' = "error"
            /\ UNCHANGED rcvReq
       ELSE /\ rcvReq' = [address |-> unpack_HH(wire)[1],
                          count |-> unpack_HH(wire)[2]]
            /\ rcvState' = "decoded"
    /\ UNCHANGED <<sndReq, wire, execVars, storeVars, respVars>>

\* `self.address, self.count = struct.unpack('>HH', data)`: unpack raises
\* struct.error unless data has 4 bytes, before anything is assigned
ReadBitsRequestBase_decode ==
    /\ rcvState = "received"
    /\ IF Len(wire) # 4
       THEN /\ rcvState' = "error"
            /\ UNCHANGED rcvReq
       ELSE /\ rcvReq' = [address |-> unpack_HH(wire)[1],
                          count |-> unpack_HH(wire)[2]]
            /\ rcvState' = "decoded"
    /\ UNCHANGED <<sndReq, wire, execVars, storeVars, respVars>>

ReqNext ==
    \/ ReqEncode
    \/ \E data \in ByteStrings(MaxData) : ReqReceive(data)
    \/ ReadBitsRequestBase_decode

SpecReq == ReqInit /\ [][ReqNext]_vars

\* ---------------------------------------------- SpecResp: the response codec
\* the value of bit p (from 0) of a list, 0 past its end
BitAt(bits, p) == IF p < Len(bits) /\ bits[p + 1] THEN 1 ELSE 0

\* utilities.packBitsToString: 8 bits a byte, the first in the low-order bit,
\* the last byte padded with zeros at its high-order end
packBitsToString(bits) ==
    [k \in 1..((Len(bits) + 7) \div 8) |->
        LET b == 8 * (k - 1)
        IN BitAt(bits, b) + 2 * BitAt(bits, b + 1) + 4 * BitAt(bits, b + 2)
           + 8 * BitAt(bits, b + 3) + 16 * BitAt(bits, b + 4)
           + 32 * BitAt(bits, b + 5) + 64 * BitAt(bits, b + 6)
           + 128 * BitAt(bits, b + 7)]

\* utilities.unpackBitsFromString: the bits of the byte_count bytes that
\* follow the leading byte count, low-order bit first, and the byte count
unpackBitsFromString(data) ==
    LET byte_count == data[1]
    IN <<[i \in 1..(8 * byte_count) |->
            ((data[2 + ((i - 1) \div 8)] \div (2 ^ ((i - 1) % 8))) % 2) = 1],
         byte_count>>

\* mutant: the leading byte counts the bits, not the bytes
ReadBitsResponseBase_encode_bitCount(bits) ==
    <<Len(bits)>> \o packBitsToString(bits)

\* mutant: the pair unpackBitsFromString returns is kept whole
ReadBitsResponseBase_decode_noIndex(data) == unpackBitsFromString(data)

\* `ret = packBitsToString(self.bits); return chr(len(ret)) + ret`
ReadBitsResponseBase_encode(bits) ==
    LET ret == packBitsToString(bits)
    IN <<Len(ret)>> \o ret

\* `self.bits = unpackBitsFromString(data)[0]`
ReadBitsResponseBase_decode(data) == unpackBitsFromString(data)[1]

RespInit ==
    /\ \E v \in {PyNone} \cup {PyList(s) : s \in BitSeqs(MaxBits)} :
           respBits = ReadBitsResponseBase_init(v)
    /\ respWire = <<>>
    /\ clientBits = ReadBitsResponseBase_init(PyNone)
    /\ respState = "built"
    /\ request = <<>>
    /\ pc = <<>>
    /\ values = <<>>
    /\ result = <<>>
    /\ calls = <<>>
    /\ StoreIdle
    /\ ReqIdle

\* the server encodes the response (chr raises ValueError past 255 bytes,
\* that is past 2040 bits)
RespEncode ==
    /\ respState = "built"
    /\ Len(packBitsToString(respBits)) <= 255
    /\ respWire' = ReadBitsResponseBase_encode(respBits)
    /\ respState' = "encoded"
    /\ UNCHANGED <<respBits, clientBits, execVars, storeVars, reqVars>>

\* the client decodes it into a response built with no values; indexing
\* past the end of the data raises IndexError and assigns nothing
RespDecode ==
    /\ respState = "encoded"
    /\ IF Len(respWire) = 0 \/ Len(respWire) < 1 + respWire[1]
       THEN /\ respState' = "error"
            /\ UNCHANGED clientBits
       ELSE /\ clientBits' = ReadBitsResponseBase_decode(respWire)
            /\ respState' = "decoded"
    /\ UNCHANGED <<respBits, respWire, execVars, storeVars, reqVars>>

RespNext == RespEncode \/ RespDecode

SpecResp == RespInit /\ [][RespNext]_vars


\* ================================================================ properties
Returned(r) == pc[r] = "returned"
IsIllegalValue(r) ==
    result[r].kind = "Exception" /\ result[r].code = "IllegalValue"
IsIllegalAddress(r) ==
    result[r].kind = "Exception" /\ result[r].code = "IllegalAddress"
IsResponse(r) == result[r].kind = "Response"
CallArgs(r) == <<function_code(r), request[r].address, request[r].count>>
Called(r, op) == \E i \in 1..Len(calls[r]) : calls[r][i].op = op
ValidateAnswered(r, ans) ==
    \E i \in 1..Len(calls[r]) :
        calls[r][i].op = "validate" /\ calls[r][i].ret = <<ans>>

\* C1: execute (of either class) returns an IllegalValue exception response
\* if and only if count is outside 1..2000, and then has called neither
\* validate nor getValues on the context.
C1_IllegalValueIffCountOutOfRange ==
    \A r \in Reqs :
        /\ Returned(r) =>
              (IsIllegalValue(r) <=> request[r].count \notin 1..2000)
        /\ IsIllegalValue(r) => calls[r] = <<>>
        /\ request[r].count \notin 1..2000 => calls[r] = <<>>

\* count = 2001 has given IllegalValue and count = 2000 has not; count = 0
\* has given IllegalValue and count = 1 has not
C1_Witness ==
    /\ Returned("rc") /\ Returned("rd")
    /\ \/ /\ request["rc"].count = 2001 /\ IsIllegalValue("rc")
          /\ request["rd"].count = 2000 /\ IsResponse("rd")
       \/ /\ request["rd"].count = 0 /\ IsIllegalValue("rd")
          /\ request["rc"].count = 1 /\ IsResponse("rc")

\* C2: with count in 1..2000, once validate has answered false execute has
\* returned an IllegalAddress exception response and getValues is not called;
\* every getValues call follows a validate call with the same arguments that
\* answered true.
C2_IllegalAddressWithoutGetValues ==
    \A r \in Reqs :
        /\ ValidateAnswered(r, FALSE) =>
              /\ request[r].count \in 1..2000
              /\ Returned(r)
              /\ IsIllegalAddress(r)
              /\ ~Called(r, "getValues")
        /\ \A i \in 1..Len(calls[r]) :
              calls[r][i].op = "getValues" =>
                 \E j \in 1..(i - 1) :
                    /\ calls[r][j].op = "validate"
                    /\ calls[r][j].ret = <<TRUE>>
                    /\ calls[r][j].args = calls[r][i].args
                    /\ calls[r][i].args = CallArgs(r)

\* one request was refused by validate, the other fetched after validate
C2_Witness ==
    /\ Returned("rc") /\ ValidateAnswered("rc", FALSE) /\ IsIllegalAddress("rc")
    /\ Returned("rd") /\ ValidateAnswered("rd", TRUE) /\ Called("rd", "getValues")

\* C3 as stated: every response execute produces holds exactly count bits,
\* whatever sequence of booleans the store's getValues returned.
C3_LenBitsEqualsCount ==
    \A r \in Reqs : IsResponse(r) => Len(result[r].bits) = request[r].count

\* C3 amended: the response execute produces holds exactly the sequence that
\* getValues returned; it holds count bits exactly when getValues returned
\* count values.
C3_BitsAreWhatGetValuesReturned ==
    \A r \in Reqs :
        IsResponse(r) =>
            /\ Len(calls[r]) = 2
            /\ calls[r][2].op = "getValues"
            /\ result[r].bits = calls[r][2].ret[1][1]
            /\ (Len(result[r].bits) = request[r].count
                   <=> Len(calls[r][2].ret[1][1]) = request[r].count)

\* a store that returned count values, and one that returned fewer
C3_Witness ==
    /\ IsResponse("rc") /\ request["rc"].count = 2
    /\ Len(result["rc"].bits) = 2 /\ result["rc"].bits[2]
    /\ IsResponse("rd") /\ request["rd"].count = 2
    /\ Len(result["rd"].bits) = 1

\* C8: what holds in every state of an exchange: a returned call has exactly
\* one of the three outcomes and a running call none; the context was called
\* at most once with validate and then at most once with getValues, and only
\* after the count check passed.
C8_StateInv ==
    \A r \in Reqs :
        /\ pc[r] \in {"start", "validate", "getValues", "respond", "returned"}
        /\ Returned(r) <=> result[r] # NoResult
        /\ Returned(r) =>
              \/ IsIllegalValue(r) /\ calls[r] = <<>>
              \/ IsIllegalAddress(r) /\ Len(calls[r]) = 1
              \/ IsResponse(r) /\ Len(calls[r]) = 2
        /\ Len(calls[r]) <= 2
        /\ Len(calls[r]) >= 1 =>
              calls[r][1].op = "validate" /\ request[r].count \in 1..2000
        /\ Len(calls[r]) = 2 =>
              calls[r][1].ret = <<TRUE>> /\ calls[r][2].op = "getValues"
        /\ pc[r] = "start" => calls[r] = <<>>
        /\ pc[r] = "validate" => calls[r] = <<>>
        /\ pc[r] \in {"getValues"} => Len(calls[r]) = 1
        /\ pc[r] = "respond" => Len(calls[r]) = 2

\* nothing of an exchange changes once its call has returned
C8_NoStepAfterReturn ==
    \A r \in Reqs :
        Returned(r) =>
            /\ pc'[r] = pc[r]
            /\ result'[r] = result[r]
            /\ calls'[r] = calls[r]
            /\ values'[r] = values[r]

\* C8: every execute call ends in exactly one of the outcomes IllegalValue,
\* IllegalAddress and success; the count check precedes validate, validate
\* precedes getValues, each is called at most once, and no step follows the
\* outcome.
C8_ExchangeStateMachine ==
    /\ []C8_StateInv
    /\ [][C8_NoStepAfterReturn]_vars
    /\ <>(\A r \in Reqs : Returned(r))

\* one exchange ended as a success after both calls, the other was refused
C8_Witness ==
    /\ Returned("rc") /\ IsResponse("rc") /\ Len(calls["rc"]) = 2
    /\ Returned("rd") /\ IsIllegalAddress("rd") /\ Len(calls["rd"]) = 1

\* the store gave the two requests the same answers, call by call
SameAnswers ==
    \A i \in 1..Len(calls["rc"]) :
        i <= Len(calls["rd"]) => calls["rc"][i].ret = calls["rd"][i].ret

\* C9: a ReadCoilsRequest and a ReadDiscreteInputsRequest with the same
\* address and count encode to the same bytes, and answered alike by the
\* store they end alike: the same outcome, the same bits, the same calls,
\* apart from the function code (1 and 2) passed to the store and carried by
\* the result.
C9_EquivalentUpToFunctionCode ==
    (/\ Returned("rc") /\ Returned("rd")
     /\ request["rc"] = request["rd"]
     /\ SameAnswers)
    =>
    /\ ReadBitsRequestBase_encode(request["rc"])
          = ReadBitsRequestBase_encode(request["rd"])
    /\ result["rc"].kind = result["rd"].kind
    /\ result["rc"].code = result["rd"].code
    /\ result["rc"].bits = result["rd"].bits
    /\ result["rd"].function_code = result["rc"].function_code + 1
    /\ result["rc"].function_code \in {1, 129}
    /\ Len(calls["rc"]) = Len(calls["rd"])
    /\ \A i \in 1..Len(calls["rc"]) :
          /\ calls["rc"][i].op = calls["rd"][i].op
          /\ calls["rc"][i].args[1] = 1
          /\ calls["rd"][i].args[1] = 2
          /\ calls["rc"][i].args[2] = calls["rd"][i].args[2]
          /\ calls["rc"][i].args[3] = calls["rd"][i].args[3]

\* both succeeded with the same bits on the count boundary
C9_Witness ==
    /\ Returned("rc") /\ Returned("rd")
    /\ request["rc"] = request["rd"]
    /\ request["rc"].count = 2000
    /\ SameAnswers
    /\ IsResponse("rc") /\ IsResponse("rd")
    /\ result["rc"].bits = <<TRUE, FALSE>>

\* C10: execute does not validate again and returns whatever getValues
\* returns: the bits of a success response are the store's contents when
\* getValues ran, after exactly one validate call and one getValues call,
\* whatever was written to the store in between.
C10_ResponseCarriesStoreAtFetch ==
    \A r \in Reqs :
        IsResponse(r) =>
            /\ Len(calls[r]) = 2
            /\ calls[r][1].op = "validate"
            /\ calls[r][2].op = "getValues"
            /\ result[r].bits = atFetch[r]

\* a write came between validate and getValues: the response's bits are not
\* what the store held when validate answered true
C10_Witness ==
    \E r \in Reqs :
        /\ IsResponse(r)
        /\ ValidateAnswered(r, TRUE)
        /\ writes >= 1
        /\ result[r].bits # atValidate[r]

\* C4: decoding the 4 bytes encode produced gives a request with the same
\* address and the same count, counts above 2000 included.
C4_RequestRoundTrip ==
    (rcvState = "decoded" /\ wire = ReadBitsRequestBase_encode(sndReq)) =>
        /\ Len(wire) = 4
        /\ rcvReq.address = sndReq.address
        /\ rcvReq.count = sndReq.count

\* a round trip of high address and a count above 2000
C4_Witness ==
    /\ rcvState = "decoded"
    /\ wire = ReadBitsRequestBase_encode(sndReq)
    /\ sndReq.address = 65535
    /\ sndReq.count = 2001
    /\ rcvReq = sndReq

C7_StateInv ==
    /\ rcvState = "error" => Len(wire) # 4
    /\ rcvState = "decoded" =>
          /\ Len(wire) = 4
          /\ rcvReq.address = 256 * wire[1] + wire[2]
          /\ rcvReq.count = 256 * wire[3] + wire[4]

C7_DecodeStep ==
    (rcvState = "received" /\ rcvState' # "received") =>
        IF Len(wire) # 4
        THEN rcvState' = "error" /\ rcvReq' = rcvReq
        ELSE rcvState' = "decoded"

\* C7: decode fails for every input that is not 4 bytes long, shorter or
\* longer, and leaves address and count as they were; every 4-byte input is
\* decoded, whatever the values.
C7_DecodeFailsUnlessFourBytes ==
    /\ []C7_StateInv
    /\ [][C7_DecodeStep]_vars

\* decode of a 5-byte input failed and the fields of the request are kept
C7_Witness ==
    /\ rcvState = "error"
    /\ Len(wire) = 5
    /\ rcvReq = [address |-> 1, count |-> 1]

CeilDiv8(n) == (n + 7) \div 8

\* C5: decoding an encoded response of 1 or more bits gives 8*ceil(count/8)
\* bits: the count bits encoded, then padding bits, all false.
C5_ResponseRoundTrip ==
    /\ respState # "error"
    /\ (respState = "decoded" /\ Len(respBits) >= 1) =>
          /\ Len(clientBits) = 8 * CeilDiv8(Len(respBits))
          /\ \A p \in 1..Len(respBits) : clientBits[p] = respBits[p]
          /\ \A p \in (Len(respBits) + 1)..Len(clientBits) : clientBits[p] = FALSE

\* 9 bits, the last one set, came back as 16
C5_Witness ==
    /\ respState = "decoded"
    /\ Len(respBits) = 9
    /\ respBits[9]
    /\ Len(clientBits) = 16
    /\ clientBits[9]

\* C6: an encoded response is the byte count ceil(len(bits)/8) and as many
\* data bytes; bit p of the list is bit (p mod 8) of data byte (p div 8), and
\* the bits of the last byte past the list are 0; [true, false, true] encodes
\* to byte count 1 and data byte 5.
C6_ResponseLayout ==
    respState \in {"encoded", "decoded"} =>
        LET n == Len(respBits)
        IN /\ Len(respWire) = 1 + CeilDiv8(n)
           /\ respWire[1] = CeilDiv8(n)
           /\ \A p \in 0..(8 * CeilDiv8(n) - 1) :
                 ((respWire[2 + (p \div 8)] \div (2 ^ (p % 8))) % 2)
                    = (IF p < n /\ respBits[p + 1] THEN 1 ELSE 0)
           /\ respBits = <<TRUE, FALSE, TRUE>> => respWire = <<1, 5>>

\* [true, false, true] was encoded
C6_Witness ==
    /\ respState = "encoded"
    /\ respBits = <<TRUE, FALSE, TRUE>>
    /\ respWire = <<1, 5>>

=============================================================================
